---- MODULE Spec2Model ----
(***************************************************************************)
(* The dotmesh operator (cmd/operator/main.go): a control loop that keeps  *)
(* one dotmesh-server pod per cluster node.  The model holds the cluster   *)
(* as the API server sees it, the two informer caches, the dirty flag and  *)
(* the position of the worker inside process().                            *)
(***************************************************************************)
EXTENDS Integers, Sequences, FiniteSets, TLC

(***************************************************************************)
(* Bounds of the model.                                                    *)
(***************************************************************************)
\* Node names are taken from the first NumNodes entries of NodeNameList.
NumNodes == 2
\* At most this many pods exist before the operator starts.
MaxInitPods == 2
\* At most this many changes made by others than the operator (a node
\* leaving or joining, a pod failing) happen after the start.
MaxExternal == 1
\* The ConfigMap holds at most this many entries.
MaxConfigKeys == 2
\* The process is stopped and started again at most this many times.
MaxRestarts == 1

NodeNameList == <<"n1", "n2", "n3", "n4", "n5">>
NodeNames == {NodeNameList[i] : i \in 1..NumNodes}

(***************************************************************************)
(* Program constants.                                                      *)
(***************************************************************************)
DOTMESH_IMAGE == "image-new"
OtherImage == "image-old"
Images == {DOTMESH_IMAGE, OtherImage}

PodPending == "Pending"
PodRunning == "Running"
PodFailed == "Failed"
PodSucceeded == "Succeeded"
PodUnknown == "Unknown"

\* CLUSTER_MINIMUM_RATIO = 0.75 as the fraction RatioNum / RatioDen
RatioNum == 3
RatioDen == 4

(***************************************************************************)
(* Nodes.  A node is its ObjectMeta.Labels[DOTMESH_NODE_LABEL] entry:      *)
(* NilLabels (the label map itself is nil), NoLabel (a map without the     *)
(* key) or the label's value.                                              *)
(***************************************************************************)
NilLabels == "#nil"
NoLabel == "#none"
LabelStates == {NilLabels, NoLabel} \cup NodeNames

\* labelName, ok := node.ObjectMeta.Labels[DOTMESH_NODE_LABEL]
LabelOk(l) == l \notin {NilLabels, NoLabel}
\* a missing key reads as Go's zero value, the empty string
LabelValue(l) == IF LabelOk(l) THEN l ELSE ""

\* The identities a pod may be bound to: label values as the code reads them
Identities == NodeNames \cup {""}

(***************************************************************************)
(* Pods.  bound is Spec.NodeSelector[DOTMESH_NODE_LABEL] (NoSelector when  *)
(* the key is missing), ncont is len(Spec.Containers), image is            *)
(* Spec.Containers[0].Image, nodeName is Spec.NodeName, phase is           *)
(* Status.Phase.                                                           *)
(***************************************************************************)
NoSelector == "#nosel"

\* fmt.Sprintf("dotmesh-%s", node)
PodNameFor(node) == "dotmesh-" \o node

StrayPod == "stray"
PodNames == {PodNameFor(id) : id \in Identities} \cup {StrayPod}

DOTMESH_NAMESPACE == "dotmesh"
DOTMESH_ROLE_SERVER == "dotmesh-server"
RestartPolicyNever == "Never"
RestartPolicyAlways == "Always"

\* the pod left to the kubelet to restart
NewDotmeshPodRestarting(node) ==
    [name |-> PodNameFor(node),
     namespace |-> "dotmesh",
     role |-> DOTMESH_ROLE_SERVER,
     nodeSelector |-> node,
     containers |-> <<DOTMESH_IMAGE>>,
     restartPolicy |-> RestartPolicyAlways]

\* newDotmesh := v1.Pod{...}: ObjectMeta.Name, ObjectMeta.Namespace,
\* Labels[DOTMESH_POD_ROLE_LABEL], Spec.NodeSelector[DOTMESH_NODE_LABEL], the
\* images of Spec.Containers and Spec.RestartPolicy
NewDotmeshPod(node) ==
    [name |-> PodNameFor(node),
     namespace |-> "dotmesh",
     role |-> DOTMESH_ROLE_SERVER,
     nodeSelector |-> node,
     containers |-> <<DOTMESH_IMAGE>>,
     restartPolicy |-> RestartPolicyNever]

\* The pod object process() builds for an undotted node, as the cluster
\* holds it once created: not scheduled, Pending
NewDotmesh(node) ==
    [bound |-> NewDotmeshPod(node).nodeSelector,
     ncont |-> Len(NewDotmeshPod(node).containers),
     image |-> NewDotmeshPod(node).containers[1],
     nodeName |-> "", phase |-> PodPending]

EmptyMap == [x \in {} |-> ""]
Remove(f, k) == [x \in DOMAIN f \ {k} |-> f[x]]
Put(f, k, v) == [x \in DOMAIN f \cup {k} |-> IF x = k THEN v ELSE f[x]]

VARIABLES
    apiNodes,          \* the nodes of the cluster: name -> label state
    apiPods,           \* the dotmesh pods of the cluster: name -> pod
    nodeCache,         \* nodeIndexer, read through nodeLister
    podCache,          \* podIndexer, read through podLister
    updatesNeeded,     \* the dirty flag
    pc,                \* where the worker is
    nodes,             \* process(): the node list
    dotmeshes,         \* process(): the pod list
    validNodes,
    undottedNodes,
    suspendedNodes,
    dotmeshesToKill,
    clusterPopulation,
    iter,              \* the keys the current range loop has still to visit
    calls,             \* the cluster-mutating calls of the current pass, in order
    synced,            \* the informers that have completed their initial list
    again,             \* the current pass began right after a completed one
    external,          \* changes made by others so far
    configMap,         \* what ConfigMaps(...).Get returns
    config,            \* rc.config.Data
    restarts           \* how often the process has been started again

vars == <<apiNodes, apiPods, nodeCache, podCache, updatesNeeded, pc, nodes,
          dotmeshes, validNodes, undottedNodes, suspendedNodes,
          dotmeshesToKill, clusterPopulation, iter, calls, synced, again, external,
          configMap, config, restarts>>

cluster == <<apiNodes, apiPods>>
caches == <<nodeCache, podCache>>
locals == <<nodes, dotmeshes, validNodes, undottedNodes, suspendedNodes,
            dotmeshesToKill, clusterPopulation>>

(***************************************************************************)
(* The configuration.  configMap is the result of the Get call: state      *)
(* "error" (the call failed), "nil" (a ConfigMap without data: Data is a   *)
(* nil map) or "ok" with the data.                                         *)
(***************************************************************************)
CONFIG_NODE_SELECTOR == "nodeSelector"
CONFIG_UPGRADES_URL == "upgradesUrl"
CONFIG_UPGRADES_INTERVAL_SECONDS == "upgradesIntervalSeconds"
CONFIG_FLEXVOLUME_DRIVER_DIR == "flexvolumeDriverDir"
CONFIG_POOL_NAME == "poolName"
CONFIG_LOG_ADDRESS == "logAddress"
CONFIG_MODE == "storageMode"
CONFIG_MODE_LOCAL == "local"
CONFIG_LOCAL_POOL_SIZE_PER_NODE == "local.poolSizePerNode"
CONFIG_LOCAL_POOL_LOCATION == "local.poolLocation"

\* the provideDefault calls of newDotmeshController, in their order
DefaultsTable ==
    <<<<CONFIG_NODE_SELECTOR, "">>,
      <<CONFIG_UPGRADES_URL, "https://checkpoint.dotmesh.com/">>,
      <<CONFIG_UPGRADES_INTERVAL_SECONDS, "14400">>,
      <<CONFIG_FLEXVOLUME_DRIVER_DIR, "/usr/libexec/kubernetes/kubelet-plugins/volume/exec">>,
      <<CONFIG_POOL_NAME, "pool">>,
      <<CONFIG_LOG_ADDRESS, "">>,
      <<CONFIG_MODE, CONFIG_MODE_LOCAL>>,
      <<CONFIG_LOCAL_POOL_SIZE_PER_NODE, "10G">>,
      <<CONFIG_LOCAL_POOL_LOCATION, "/var/lib/dotmesh">>>>

\* provideDefault on a map that is not nil
ProvideDefault(m, key, deflt) ==
    IF key \in DOMAIN m THEN m ELSE Put(m, key, deflt)

RECURSIVE ProvideDefaults(_, _)
\* the calls from the i-th on
ProvideDefaults(m, i) ==
    IF i > Len(DefaultsTable) THEN m
    ELSE ProvideDefaults(ProvideDefault(m, DefaultsTable[i][1], DefaultsTable[i][2]), i + 1)

\* data[key] in Go: "" for a missing key
Lookup(data, key) == IF key \in DOMAIN data THEN data[key] ELSE ""

\* the environment variables of the container that come from the configuration
PodEnv(data) ==
    [USE_POOL_NAME |-> Lookup(data, CONFIG_POOL_NAME),
     USE_POOL_DIR |-> Lookup(data, CONFIG_LOCAL_POOL_LOCATION),
     POOL_SIZE |-> Lookup(data, CONFIG_LOCAL_POOL_SIZE_PER_NODE),
     LOG_ADDR |-> Lookup(data, CONFIG_LOG_ADDRESS),
     DOTMESH_UPGRADES_URL |-> Lookup(data, CONFIG_UPGRADES_URL),
     DOTMESH_UPGRADES_INTERVAL_SECONDS |-> Lookup(data, CONFIG_UPGRADES_INTERVAL_SECONDS),
     FLEXVOLUME_DRIVER_DIR |-> Lookup(data, CONFIG_FLEXVOLUME_DRIVER_DIR)]

\* the process exists and Run has been called
ProcessAlive == pc \notin {"constructing", "crashed", "killed"}

(***************************************************************************)
(* process(), step B: the checks made on one observed pod, in the order    *)
(* the code makes them.                                                    *)
(***************************************************************************)
\* boundNode, ok := dotmesh.Spec.NodeSelector[DOTMESH_NODE_LABEL]; !ok
MissingSelector(pod) == pod.bound = NoSelector

\* len(dotmesh.Spec.Containers) != 1
WrongContainerCount(pod) == pod.ncont # 1

\* image != DOTMESH_IMAGE
WrongImage(pod) == pod.image # DOTMESH_IMAGE

\* the comparison without the guard for a pod not yet scheduled
MisScheduledUnguarded(pod) == pod.nodeName # pod.bound

\* runningNode != "" && runningNode != boundNode
MisScheduled(pod) == pod.nodeName # "" /\ pod.nodeName # pod.bound

\* _, nodeOk := validNodes[boundNode]; !nodeOk
InvalidNode(pod, valid) == pod.bound \notin valid

\* a pod that has terminated, in whichever way, taken as failed
HasTerminated(pod) == pod.phase \in {PodFailed, PodSucceeded}

\* status == v1.PodFailed
HasFailed(pod) == pod.phase = PodFailed

\* the check of the bound node moved before the check of the image
VerdictNodeFirst(pod, valid) ==
    IF MissingSelector(pod) THEN "kill"
    ELSE IF WrongContainerCount(pod) THEN "kill-suspend"
    ELSE IF InvalidNode(pod, valid) THEN "kill"
    ELSE IF WrongImage(pod) THEN "kill-suspend"
    ELSE IF MisScheduled(pod) THEN "kill-suspend"
    ELSE IF HasFailed(pod) THEN "kill-suspend"
    ELSE "healthy"

\* the checks without the last one, on the phase
VerdictIgnoringPhase(pod, valid) ==
    IF MissingSelector(pod) THEN "kill"
    ELSE IF WrongContainerCount(pod) THEN "kill-suspend"
    ELSE IF WrongImage(pod) THEN "kill-suspend"
    ELSE IF MisScheduled(pod) THEN "kill-suspend"
    ELSE IF InvalidNode(pod, valid) THEN "kill"
    ELSE "healthy"

\* What the loop body does with one pod: "kill" (mark to kill and continue),
\* "kill-suspend" (mark to kill, suspend the bound node and continue) or
\* "healthy" (delete(undottedNodes, boundNode)).
Verdict(pod, valid) ==
    IF MissingSelector(pod) THEN "kill"
    ELSE IF WrongContainerCount(pod) THEN "kill-suspend"
    ELSE IF WrongImage(pod) THEN "kill-suspend"
    ELSE IF MisScheduled(pod) THEN "kill-suspend"
    ELSE IF InvalidNode(pod, valid) THEN "kill"
    ELSE IF HasFailed(pod) THEN "kill-suspend"
    ELSE "healthy"

\* dotmeshIsRunning[podName] = status == v1.PodRunning
IsRunning(pod) == pod.phase = PodRunning

\* runningPodCount after the loop over the pod list
RunningPodCount(pods) == Cardinality({p \in DOMAIN pods : IsRunning(pods[p])})

\* the second loop over nodes: validNodes[nodeLabel] = struct{}{} with
\* nodeLabel := node.ObjectMeta.Labels[DOTMESH_NODE_LABEL] of the listed object
ValidNodesOf(nodeList) == {LabelValue(nodeList[n]) : n \in DOMAIN nodeList}

\* a healthy pod marked as well when another healthy pod has its bound node
MarkedToKillWithDuplicates(pods, valid) ==
    {p \in DOMAIN pods : Verdict(pods[p], valid) # "healthy"}
      \cup {p \in DOMAIN pods :
               /\ Verdict(pods[p], valid) = "healthy"
               /\ \E q \in DOMAIN pods \ {p} :
                     Verdict(pods[q], valid) = "healthy" /\ pods[q].bound = pods[p].bound}

MarkedToKill(pods, valid) ==
    {p \in DOMAIN pods : Verdict(pods[p], valid) # "healthy"}

\* only a failed pod suspends its node
SuspendedByFailedOnly(pods, valid) ==
    {pods[p].bound : p \in {q \in DOMAIN pods : HasFailed(pods[q])}}

SuspendedBy(pods, valid) ==
    {pods[p].bound : p \in {q \in DOMAIN pods : Verdict(pods[q], valid) = "kill-suspend"}}

DottedBy(pods, valid) ==
    {pods[p].bound : p \in {q \in DOMAIN pods : Verdict(pods[q], valid) = "healthy"}}

\* the product rounded up instead of truncated
ClusterMinimumPopulationCeil(valid) ==
    (RatioNum * Cardinality(valid) + RatioDen - 1) \div RatioDen

\* a ratio of one half in place of three quarters
ClusterMinimumPopulationHalf(valid) == Cardinality(valid) \div 2

\* int(CLUSTER_MINIMUM_RATIO * float32(len(validNodes))): 0.75 and the small
\* products are exact in float32, and the conversion truncates
ClusterMinimumPopulation(valid) == (RatioNum * Cardinality(valid)) \div RatioDen

\* the rate limit applied to every marked pod, running or not
MayDeleteRateLimitsAll(pod, population, minimum) == population > minimum

\* the comparison off by one: deletes down to one below the minimum
MayDeleteAtMinimum(pod, population, minimum) ==
    ~(pod.phase = PodRunning) \/ population >= minimum

\* !dotmeshIsRunning[dotmeshName] || clusterPopulation > clusterMinimumPopulation
MayDelete(pod, population, minimum) ==
    ~IsRunning(pod) \/ population > minimum

\* every node labelled again in every pass
NeedsLabelAlways(name, l) == TRUE

\* only the missing label is noticed, a wrong value is left alone
NeedsLabelIfMissing(name, l) == l \in {NilLabels, NoLabel}

\* !ok || labelName != nodeName
NeedsLabel(name, l) == ~LabelOk(l) \/ LabelValue(l) # name

(***************************************************************************)
(* The cluster API, as far as the operator's calls go.                     *)
(***************************************************************************)
Call(op, name, arg, ok) == [op |-> op, name |-> name, arg |-> arg, ok |-> ok]

\* Pods(...).Create(&dotmesh): the pod carries the environment built from
\* c.config.Data
CreateCall(name, node, ok) ==
    [op |-> "create", name |-> name, arg |-> node, ok |-> ok, env |-> PodEnv(config),
     pod |-> NewDotmeshPod(node)]

\* Nodes().Update(n2) succeeds on a node the cluster still has
UpdateSucceeds(name, fail) == ~fail /\ name \in DOMAIN apiNodes
\* Pods().Delete(name) succeeds on a pod the cluster still has
DeleteSucceeds(name, fail) == ~fail /\ name \in DOMAIN apiPods
\* Pods().Create(pod) succeeds unless a pod of that name exists
CreateSucceeds(name, fail) == ~fail /\ name \notin DOMAIN apiPods

(***************************************************************************)
(* Run(): the informers' initial lists, then the worker.                   *)
(***************************************************************************)
\* newDotmeshController with the defaults left out when the Get fails
ConstructWithoutDefaults ==
    /\ pc = "constructing"
    /\ IF configMap.state = "error"
         THEN pc' = "starting" /\ config' = EmptyMap
         ELSE IF configMap.state = "nil"
                THEN pc' = "crashed" /\ config' = config
                ELSE pc' = "starting" /\ config' = ProvideDefaults(configMap.data, 1)
    /\ UNCHANGED <<cluster, caches, updatesNeeded, locals, iter, calls, synced, again, external,
                   configMap, restarts>>

\* newDotmeshController: the Get of the ConfigMap, then the provideDefault
\* calls.  After a failed Get they fill an empty map.  A ConfigMap without
\* data has Data = nil: the first provideDefault assigns to an entry of a
\* nil map, which panics.
Construct ==
    /\ pc = "constructing"
    /\ IF configMap.state = "error"
         THEN pc' = "starting" /\ config' = ProvideDefaults(EmptyMap, 1)
         ELSE IF configMap.state = "nil"
                THEN pc' = "crashed" /\ config' = config
                ELSE pc' = "starting" /\ config' = ProvideDefaults(configMap.data, 1)
    /\ UNCHANGED <<cluster, caches, updatesNeeded, locals, iter, calls, synced, again, external,
                   configMap, restarts>>

\* An interrupt: main installs no handler, the process ends where it is
Interrupt ==
    /\ pc \notin {"crashed", "killed"}
    /\ pc' = "killed"
    /\ UNCHANGED <<cluster, caches, updatesNeeded, locals, iter, calls, synced, again, external,
                   configMap, config, restarts>>

\* The process stopped wherever it is and started again: main builds a new
\* controller, with updatesNeeded false and empty caches
Restart ==
    /\ restarts < MaxRestarts
    /\ pc # "constructing"
    /\ restarts' = restarts + 1
    /\ pc' = "constructing"
    /\ config' = EmptyMap
    /\ updatesNeeded' = FALSE
    /\ nodeCache' = EmptyMap
    /\ podCache' = EmptyMap
    /\ synced' = {}
    /\ nodes' = EmptyMap
    /\ dotmeshes' = EmptyMap
    /\ validNodes' = {}
    /\ undottedNodes' = {}
    /\ suspendedNodes' = {}
    /\ dotmeshesToKill' = {}
    /\ clusterPopulation' = 0
    /\ iter' = {}
    /\ calls' = <<>>
    /\ again' = FALSE
    /\ UNCHANGED <<cluster, external, configMap>>

\* an initial list that fills the cache without running AddFunc
NodeInformerListSilent ==
    /\ ProcessAlive
    /\ "node" \notin synced
    /\ synced' = synced \cup {"node"}
    /\ nodeCache' = apiNodes
    /\ UNCHANGED <<cluster, podCache, updatesNeeded, pc, locals, iter, calls, again, external,
                   configMap, config, restarts>>

\* nodeInformer.Run: the initial list fills the cache and every listed node
\* goes through AddFunc
NodeInformerList ==
    /\ ProcessAlive
    /\ "node" \notin synced
    /\ synced' = synced \cup {"node"}
    /\ nodeCache' = apiNodes
    /\ updatesNeeded' = (updatesNeeded \/ DOMAIN apiNodes # {})
    /\ UNCHANGED <<cluster, podCache, pc, locals, iter, calls, again, external, configMap, config, restarts>>

\* podInformer.Run
PodInformerList ==
    /\ ProcessAlive
    /\ "pod" \notin synced
    /\ synced' = synced \cup {"pod"}
    /\ podCache' = apiPods
    /\ updatesNeeded' = (updatesNeeded \/ DOMAIN apiPods # {})
    /\ UNCHANGED <<cluster, nodeCache, pc, locals, iter, calls, again, external, configMap, config, restarts>>

\* the worker started once the node cache alone has synced
StartWorkerAfterNodeSync ==
    /\ pc = "starting"
    /\ "node" \in synced
    /\ pc' = "idle"
    /\ UNCHANGED <<cluster, caches, updatesNeeded, locals, iter, calls, synced, again, external, configMap, config, restarts>>

\* both WaitForCacheSync calls have returned true: go wait.Until(c.runWorker, ...)
StartWorker ==
    /\ pc = "starting"
    /\ synced = {"node", "pod"}
    /\ pc' = "idle"
    /\ UNCHANGED <<cluster, caches, updatesNeeded, locals, iter, calls, synced, again, external, configMap, config, restarts>>

\* scheduleUpdate(), called by every informer callback
ScheduleUpdate == updatesNeeded' = TRUE

(***************************************************************************)
(* runWorker() and process().                                              *)
(***************************************************************************)
\* a worker that stops ticking once process() has returned an error
WorkerWaitingUnlessFailed == pc \in {"idle", "done"}

WorkerWaiting == pc \in {"idle", "done", "failed"}

\* a tick that runs process() whatever the flag says
RunWorkerEveryTick ==
    /\ WorkerWaiting
    /\ updatesNeeded' = FALSE
    /\ pc' = "label"
    /\ nodes' = nodeCache
    /\ iter' = DOMAIN nodeCache
    /\ calls' = <<>>
    /\ dotmeshes' = EmptyMap
    /\ validNodes' = {}
    /\ undottedNodes' = {}
    /\ suspendedNodes' = {}
    /\ dotmeshesToKill' = {}
    /\ clusterPopulation' = 0
    /\ again' = (pc = "done")
    /\ UNCHANGED <<cluster, caches, synced, external, configMap, config, restarts>>

\* One tick: read and clear the flag; when it was set, process() starts
\* and lists the nodes.
RunWorker ==
    /\ WorkerWaiting
    /\ updatesNeeded' = FALSE
    /\ IF updatesNeeded
         THEN /\ pc' = "label"
              /\ nodes' = nodeCache
              /\ iter' = DOMAIN nodeCache
              /\ calls' = <<>>
              /\ dotmeshes' = EmptyMap
              /\ validNodes' = {}
              /\ undottedNodes' = {}
              /\ suspendedNodes' = {}
              /\ dotmeshesToKill' = {}
              /\ clusterPopulation' = 0
              /\ again' = (pc = "done")
         ELSE UNCHANGED <<pc, locals, iter, calls, again>>
    /\ UNCHANGED <<cluster, caches, synced, external, configMap, config, restarts>>

\* the first loop over nodes going on after a failed update
LabelNodeContinuing(fail) ==
    /\ pc = "label"
    /\ \E n \in iter :
         IF ~NeedsLabel(n, nodes[n])
           THEN /\ iter' = iter \ {n}
                /\ UNCHANGED <<cluster, pc, calls>>
           ELSE IF nodes[n] = NilLabels
             THEN /\ pc' = "crashed"
                  /\ UNCHANGED <<cluster, iter, calls>>
             ELSE /\ calls' = Append(calls, Call("update", n, n, UpdateSucceeds(n, fail)))
                  /\ apiNodes' = IF UpdateSucceeds(n, fail)
                                    THEN [apiNodes EXCEPT ![n] = n] ELSE apiNodes
                  /\ iter' = iter \ {n}
                  /\ pc' = pc
                  /\ UNCHANGED apiPods
    /\ UNCHANGED <<caches, updatesNeeded, locals, synced, again, external, configMap, config, restarts>>

\* One iteration of the first loop over nodes.  The label is written into a
\* deep copy of the listed node; writing into a nil label map panics.
LabelNode(fail) ==
    /\ pc = "label"
    /\ \E n \in iter :
         IF ~NeedsLabel(n, nodes[n])
           THEN /\ iter' = iter \ {n}
                /\ UNCHANGED <<cluster, pc, calls>>
           ELSE IF nodes[n] = NilLabels
             THEN /\ pc' = "crashed"
                  /\ UNCHANGED <<cluster, iter, calls>>
             ELSE /\ calls' = Append(calls, Call("update", n, n, UpdateSucceeds(n, fail)))
                  /\ IF UpdateSucceeds(n, fail)
                       THEN /\ apiNodes' = [apiNodes EXCEPT ![n] = n]
                            /\ iter' = iter \ {n}
                            /\ pc' = pc
                       ELSE /\ pc' = "failed"
                            /\ UNCHANGED <<apiNodes, iter>>
                  /\ UNCHANGED apiPods
    /\ UNCHANGED <<caches, updatesNeeded, locals, synced, again, external, configMap, config, restarts>>

\* Where process() goes once the pods marked to kill are dealt with
AfterKillLoop(rest, undotted) ==
    IF rest = {}
      THEN pc' = "create" /\ iter' = undotted
      ELSE pc' = "kill" /\ iter' = rest

\* The second loop over nodes, the pod list and the loop over it.
ExaminePods ==
    /\ pc = "label"
    /\ iter = {}
    /\ LET valid == ValidNodesOf(nodes)
           pods == podCache
           kill == MarkedToKill(pods, valid)
           undotted == valid \ DottedBy(pods, valid)
       IN /\ validNodes' = valid
          /\ dotmeshes' = pods
          /\ dotmeshesToKill' = kill
          /\ suspendedNodes' = SuspendedBy(pods, valid)
          /\ undottedNodes' = undotted
          /\ clusterPopulation' = RunningPodCount(pods)
          /\ AfterKillLoop(kill, undotted)
    /\ UNCHANGED <<cluster, caches, updatesNeeded, nodes, calls, synced, again, external, configMap, config, restarts>>

\* each delete followed at once by the create of the replacement
DeletePodAndReplace(fail) ==
    /\ pc = "kill"
    /\ \E p \in iter :
         /\ IF MayDelete(dotmeshes[p], clusterPopulation, ClusterMinimumPopulation(validNodes))
              THEN /\ calls' = calls \o <<Call("delete", p, "", DeleteSucceeds(p, fail)),
                                           CreateCall(p, dotmeshes[p].bound, ~fail)>>
                   /\ apiPods' = IF ~fail THEN Put(apiPods, p, NewDotmesh(dotmeshes[p].bound))
                                           ELSE apiPods
                   /\ clusterPopulation' =
                        IF IsRunning(dotmeshes[p]) THEN clusterPopulation - 1 ELSE clusterPopulation
              ELSE UNCHANGED <<calls, apiPods, clusterPopulation>>
         /\ AfterKillLoop(iter \ {p}, undottedNodes)
    /\ UNCHANGED <<apiNodes, caches, updatesNeeded, nodes, dotmeshes, validNodes,
                   undottedNodes, suspendedNodes, dotmeshesToKill, synced, again, external, configMap, config, restarts>>

\* the loop over dotmeshesToKill returning the error of a failed delete
DeletePodAborting(fail) ==
    /\ pc = "kill"
    /\ \E p \in iter :
         IF MayDelete(dotmeshes[p], clusterPopulation, ClusterMinimumPopulation(validNodes))
           THEN /\ calls' = Append(calls, Call("delete", p, "", DeleteSucceeds(p, fail)))
                /\ apiPods' = IF DeleteSucceeds(p, fail) THEN Remove(apiPods, p) ELSE apiPods
                /\ clusterPopulation' =
                     IF IsRunning(dotmeshes[p]) THEN clusterPopulation - 1 ELSE clusterPopulation
                /\ IF DeleteSucceeds(p, fail)
                     THEN AfterKillLoop(iter \ {p}, undottedNodes)
                     ELSE pc' = "failed" /\ iter' = iter
           ELSE /\ UNCHANGED <<calls, apiPods, clusterPopulation>>
                /\ AfterKillLoop(iter \ {p}, undottedNodes)
    /\ UNCHANGED <<apiNodes, caches, updatesNeeded, nodes, dotmeshes, validNodes,
                   undottedNodes, suspendedNodes, dotmeshesToKill, synced, again, external, configMap, config, restarts>>

\* clusterPopulation-- only when the delete call has succeeded
DeletePodCountingSuccesses(fail) ==
    /\ pc = "kill"
    /\ \E p \in iter :
         /\ IF MayDelete(dotmeshes[p], clusterPopulation, ClusterMinimumPopulation(validNodes))
              THEN /\ calls' = Append(calls, Call("delete", p, "", DeleteSucceeds(p, fail)))
                   /\ apiPods' = IF DeleteSucceeds(p, fail) THEN Remove(apiPods, p) ELSE apiPods
                   /\ clusterPopulation' =
                        IF IsRunning(dotmeshes[p]) /\ DeleteSucceeds(p, fail)
                          THEN clusterPopulation - 1 ELSE clusterPopulation
              ELSE UNCHANGED <<calls, apiPods, clusterPopulation>>
         /\ AfterKillLoop(iter \ {p}, undottedNodes)
    /\ UNCHANGED <<apiNodes, caches, updatesNeeded, nodes, dotmeshes, validNodes,
                   undottedNodes, suspendedNodes, dotmeshesToKill, synced, again, external, configMap, config, restarts>>

\* One iteration of the loop over dotmeshesToKill.
DeletePod(fail) ==
    /\ pc = "kill"
    /\ \E p \in iter :
         /\ IF MayDelete(dotmeshes[p], clusterPopulation, ClusterMinimumPopulation(validNodes))
              THEN /\ calls' = Append(calls, Call("delete", p, "", DeleteSucceeds(p, fail)))
                   /\ apiPods' = IF DeleteSucceeds(p, fail) THEN Remove(apiPods, p) ELSE apiPods
                   /\ clusterPopulation' =
                        IF IsRunning(dotmeshes[p]) THEN clusterPopulation - 1 ELSE clusterPopulation
              ELSE UNCHANGED <<calls, apiPods, clusterPopulation>>
         /\ AfterKillLoop(iter \ {p}, undottedNodes)
    /\ UNCHANGED <<apiNodes, caches, updatesNeeded, nodes, dotmeshes, validNodes,
                   undottedNodes, suspendedNodes, dotmeshesToKill, synced, again, external, configMap, config, restarts>>

\* the loop over undottedNodes without the test of suspendedNodes
CreatePodIgnoringSuspension(fail) ==
    /\ pc = "create"
    /\ \E node \in iter :
         /\ calls' = Append(calls, CreateCall(PodNameFor(node), node,
                                        CreateSucceeds(PodNameFor(node), fail)))
         /\ apiPods' = IF CreateSucceeds(PodNameFor(node), fail)
                         THEN Put(apiPods, PodNameFor(node), NewDotmesh(node))
                         ELSE apiPods
         /\ iter' = iter \ {node}
    /\ UNCHANGED <<apiNodes, caches, updatesNeeded, pc, locals, synced, again, external, configMap, config, restarts>>

\* One iteration of the loop over undottedNodes.
CreatePod(fail) ==
    /\ pc = "create"
    /\ \E node \in iter :
         /\ IF node \in suspendedNodes
              THEN UNCHANGED <<calls, apiPods>>
              ELSE /\ calls' = Append(calls, CreateCall(PodNameFor(node), node,
                                                  CreateSucceeds(PodNameFor(node), fail)))
                   /\ apiPods' = IF CreateSucceeds(PodNameFor(node), fail)
                                   THEN Put(apiPods, PodNameFor(node), NewDotmesh(node))
                                   ELSE apiPods
         /\ iter' = iter \ {node}
    /\ UNCHANGED <<apiNodes, caches, updatesNeeded, pc, locals, synced, again, external, configMap, config, restarts>>

\* process() asking for another pass when it returns
ReturnSettingFlag ==
    /\ pc = "create"
    /\ iter = {}
    /\ pc' = "done"
    /\ updatesNeeded' = TRUE
    /\ UNCHANGED <<cluster, caches, locals, iter, calls, synced, again, external, configMap, config, restarts>>

\* the flag cleared when process() has returned instead of before it starts
ReturnClearingFlag ==
    /\ pc = "create"
    /\ iter = {}
    /\ pc' = "done"
    /\ updatesNeeded' = FALSE
    /\ UNCHANGED <<cluster, caches, locals, iter, calls, synced, again, external, configMap, config, restarts>>

\* return nil
Return ==
    /\ pc = "create"
    /\ iter = {}
    /\ pc' = "done"
    /\ UNCHANGED <<cluster, caches, updatesNeeded, locals, iter, calls, synced, again, external, configMap, config, restarts>>

(***************************************************************************)
(* The informers after their initial list: one watch event brings one      *)
(* cache entry up to date and runs the Add, Update or Delete callback,     *)
(* which calls scheduleUpdate(); a resync runs UpdateFunc on every cached  *)
(* object.                                                                 *)
(***************************************************************************)
Stale(cache, api, k) ==
    \/ (k \in DOMAIN api) # (k \in DOMAIN cache)
    \/ k \in DOMAIN api /\ k \in DOMAIN cache /\ api[k] # cache[k]

Refresh(cache, api, k) ==
    IF k \in DOMAIN api THEN Put(cache, k, api[k]) ELSE Remove(cache, k)

NodeWatchEvent ==
    /\ ProcessAlive
    /\ "node" \in synced
    /\ \E n \in DOMAIN apiNodes \cup DOMAIN nodeCache :
         /\ Stale(nodeCache, apiNodes, n)
         /\ nodeCache' = Refresh(nodeCache, apiNodes, n)
    /\ ScheduleUpdate
    /\ UNCHANGED <<cluster, podCache, pc, locals, iter, calls, synced, again, external, configMap, config, restarts>>

PodWatchEvent ==
    /\ ProcessAlive
    /\ "pod" \in synced
    /\ \E p \in DOMAIN apiPods \cup DOMAIN podCache :
         /\ Stale(podCache, apiPods, p)
         /\ podCache' = Refresh(podCache, apiPods, p)
    /\ ScheduleUpdate
    /\ UNCHANGED <<cluster, nodeCache, pc, locals, iter, calls, synced, again, external, configMap, config, restarts>>

Resync ==
    /\ ProcessAlive
    /\ \/ "node" \in synced /\ DOMAIN nodeCache # {}
       \/ "pod" \in synced /\ DOMAIN podCache # {}
    /\ ScheduleUpdate
    /\ UNCHANGED <<cluster, caches, pc, locals, iter, calls, synced, again, external, configMap, config, restarts>>

(***************************************************************************)
(* The cluster around the operator: the scheduler places a pending pod on  *)
(* a node its selector admits, the kubelet starts it; pods fail and nodes  *)
(* come and go.                                                            *)
(***************************************************************************)
Admits(n, pod) ==
    \/ pod.bound = NoSelector
    \/ LabelOk(apiNodes[n]) /\ apiNodes[n] = pod.bound

SchedulePod ==
    /\ \E p \in DOMAIN apiPods : \E n \in DOMAIN apiNodes :
         /\ apiPods[p].nodeName = ""
         /\ apiPods[p].phase = PodPending
         /\ Admits(n, apiPods[p])
         /\ apiPods' = [apiPods EXCEPT ![p].nodeName = n]
    /\ UNCHANGED <<apiNodes, caches, updatesNeeded, pc, locals, iter, calls, synced, again, external, configMap, config, restarts>>

StartPod ==
    /\ \E p \in DOMAIN apiPods :
         /\ apiPods[p].nodeName # ""
         /\ apiPods[p].phase = PodPending
         /\ apiPods' = [apiPods EXCEPT ![p].phase = PodRunning]
    /\ UNCHANGED <<apiNodes, caches, updatesNeeded, pc, locals, iter, calls, synced, again, external, configMap, config, restarts>>

\* Scheduling and start of a pending pod in one step
PodComesUp ==
    /\ \E p \in DOMAIN apiPods : \E n \in DOMAIN apiNodes :
         /\ apiPods[p].nodeName = ""
         /\ apiPods[p].phase = PodPending
         /\ Admits(n, apiPods[p])
         /\ apiPods' = [apiPods EXCEPT ![p].nodeName = n, ![p].phase = PodRunning]
    /\ UNCHANGED <<apiNodes, caches, updatesNeeded, pc, locals, iter, calls, synced, again, external, configMap, config, restarts>>

PodFails ==
    /\ external < MaxExternal
    /\ external' = external + 1
    /\ \E p \in DOMAIN apiPods :
         /\ apiPods[p].nodeName # ""
         /\ apiPods[p].phase \in {PodPending, PodRunning}
         /\ apiPods' = [apiPods EXCEPT ![p].phase = PodFailed]
    /\ UNCHANGED <<apiNodes, caches, updatesNeeded, pc, locals, iter, calls, synced, again, configMap, config, restarts>>

NodeLeaves ==
    /\ external < MaxExternal
    /\ external' = external + 1
    /\ \E n \in DOMAIN apiNodes : apiNodes' = Remove(apiNodes, n)
    /\ UNCHANGED <<apiPods, caches, updatesNeeded, pc, locals, iter, calls, synced, again, configMap, config, restarts>>

NodeJoins ==
    /\ external < MaxExternal
    /\ external' = external + 1
    /\ \E n \in NodeNames \ DOMAIN apiNodes : apiNodes' = Put(apiNodes, n, NoLabel)
    /\ UNCHANGED <<apiPods, caches, updatesNeeded, pc, locals, iter, calls, synced, again, configMap, config, restarts>>

(***************************************************************************)
(* Initial states.                                                         *)
(***************************************************************************)
Maps(keys, values) == UNION {[d -> values] : d \in SUBSET keys}

\* A pod as the cluster may hold it: an unscheduled pod is pending.
PodShapes ==
    {pod \in [bound : {NoSelector} \cup NodeNames, ncont : {1, 2}, image : Images,
              nodeName : {""} \cup NodeNames,
              phase : {PodPending, PodRunning, PodFailed, PodSucceeded}] :
        pod.nodeName = "" => pod.phase = PodPending}

\* The checks of step B a pod trips, its bound node taken as valid
Defects(pod) ==
    (IF MissingSelector(pod) THEN 1 ELSE 0) + (IF WrongContainerCount(pod) THEN 1 ELSE 0)
    + (IF WrongImage(pod) THEN 1 ELSE 0) + (IF HasFailed(pod) THEN 1 ELSE 0)
    + (IF ~MissingSelector(pod) /\ MisScheduled(pod) THEN 1 ELSE 0)

NoLocals ==
    /\ nodes = EmptyMap
    /\ dotmeshes = EmptyMap
    /\ validNodes = {}
    /\ undottedNodes = {}
    /\ suspendedNodes = {}
    /\ dotmeshesToKill = {}
    /\ clusterPopulation = 0
    /\ iter = {}
    /\ calls = <<>>
    /\ again = FALSE

\* newDotmeshController has run where no ConfigMap could be fetched
Constructed ==
    /\ configMap = [state |-> "error", data |-> EmptyMap]
    /\ config = ProvideDefaults(EmptyMap, 1)
    /\ restarts = 0

\* newDotmeshController has returned and Run is about to start the informers
Starting ==
    /\ pc = "starting"
    /\ synced = {}
    /\ nodeCache = EmptyMap
    /\ podCache = EmptyMap
    /\ updatesNeeded = FALSE
    /\ external = 0
    /\ NoLocals
    /\ Constructed

\* Both caches hold the cluster as listed and the worker is about to tick
Synced ==
    /\ pc = "idle"
    /\ synced = {"node", "pod"}
    /\ nodeCache = apiNodes
    /\ podCache = apiPods
    /\ updatesNeeded = (DOMAIN apiNodes # {} \/ DOMAIN apiPods # {})
    /\ external = 0
    /\ NoLocals
    /\ Constructed

\* The names of the pods that exist before the operator starts
InitPodNames == {PodNameFor(NodeNameList[1]), StrayPod}

InitPodMaps ==
    {m \in Maps(InitPodNames, {pod \in PodShapes : Defects(pod) <= 1}) :
        Cardinality(DOMAIN m) <= MaxInitPods}

\* Any cluster of the bounded sizes, both caches synced
InitPass ==
    /\ apiNodes \in Maps(NodeNames, LabelStates)
    /\ apiPods \in InitPodMaps
    /\ Synced

(***************************************************************************)
(* Specifications.                                                         *)
(***************************************************************************)
\* One pass of the worker on a cluster nobody else touches
NextPass ==
    \/ RunWorker
    \/ \E fail \in BOOLEAN : LabelNode(fail)
    \/ ExaminePods
    \/ \E fail \in BOOLEAN : DeletePod(fail)
    \/ \E fail \in BOOLEAN : CreatePod(fail)
    \/ Return

PassSpec == InitPass /\ [][NextPass]_vars

\* A cluster without dotmesh pods, the operator starting
InitRun ==
    /\ apiNodes \in {m \in Maps(NodeNames, LabelStates) :
                       \A n \in DOMAIN m : m[n] \in {NilLabels, NoLabel, n}}
    /\ apiPods = EmptyMap
    /\ Starting

\* The operator in a live cluster
Next ==
    \/ NodeInformerList
    \/ PodInformerList
    \/ StartWorker
    \/ RunWorker
    \/ \E fail \in BOOLEAN : LabelNode(fail)
    \/ ExaminePods
    \/ \E fail \in BOOLEAN : DeletePod(fail)
    \/ \E fail \in BOOLEAN : CreatePod(fail)
    \/ Return
    \/ NodeWatchEvent
    \/ PodWatchEvent
    \/ Resync
    \/ SchedulePod
    \/ StartPod
    \/ PodFails
    \/ NodeLeaves
    \/ NodeJoins

Spec == InitRun /\ [][Next]_vars

\* Any cluster with at most one pod, both caches synced
InitResync ==
    /\ apiNodes \in Maps(NodeNames, LabelStates)
    /\ apiPods \in {m \in InitPodMaps : Cardinality(DOMAIN m) <= 1}
    /\ Synced

\* The worker on a cluster nobody else touches and whose watch events do
\* not arrive: every resync makes it run again on the same caches.
NextResync ==
    \/ RunWorker
    \/ \E fail \in BOOLEAN : LabelNode(fail)
    \/ ExaminePods
    \/ \E fail \in BOOLEAN : DeletePod(fail)
    \/ \E fail \in BOOLEAN : CreatePod(fail)
    \/ Return
    \/ Resync

ResyncSpec == InitResync /\ [][NextResync]_vars

\* Cold start: three nodes without the identity label, no pods
ColdNodes == {"n1", "n2", "n3"}

InitCold ==
    /\ apiNodes = [n \in ColdNodes |-> NoLabel]
    /\ apiPods = EmptyMap
    /\ Starting

\* The operator, the informers, the scheduler and the kubelet; no call
\* fails and nobody else changes the cluster.
NextCold ==
    \/ NodeInformerList
    \/ PodInformerList
    \/ StartWorker
    \/ RunWorker
    \/ LabelNode(FALSE)
    \/ ExaminePods
    \/ DeletePod(FALSE)
    \/ CreatePod(FALSE)
    \/ Return
    \/ NodeWatchEvent
    \/ PodWatchEvent
    \/ Resync
    \/ SchedulePod
    \/ StartPod

ColdSpec == InitCold /\ [][NextCold]_vars

\* Rolling upgrade: four labelled nodes, on each a Running pod of the old image
RollingNodes == {"n1", "n2", "n3", "n4"}

OldDotmesh(node) ==
    [bound |-> node, ncont |-> 1, image |-> OtherImage,
     nodeName |-> node, phase |-> PodRunning]

InitRolling ==
    /\ apiNodes = [n \in RollingNodes |-> n]
    /\ apiPods \in {m \in [{PodNameFor(n) : n \in RollingNodes} -> {OldDotmesh(n) : n \in RollingNodes}] :
                      \A n \in RollingNodes : m[PodNameFor(n)] = OldDotmesh(n)}
    /\ Synced

\* The operator, the pod informer with its lag and its resync, and the
\* replacement pods coming up; no call fails and nobody else changes the
\* cluster.
NextRolling ==
    \/ RunWorker
    \/ LabelNode(FALSE)
    \/ ExaminePods
    \/ DeletePod(FALSE)
    \/ CreatePod(FALSE)
    \/ Return
    \/ PodWatchEvent
    \/ Resync
    \/ PodComesUp

RollingSpec == InitRolling /\ [][NextRolling]_vars

\* Run's goroutines keep running: wait.Until calls runWorker, process() runs
\* to its return, the pod informer delivers every change, and the pods the
\* operator creates come up.  Nothing makes a resync come.
UpgradeFairness ==
    /\ WF_vars(RunWorker)
    /\ WF_vars(LabelNode(FALSE))
    /\ WF_vars(ExaminePods)
    /\ WF_vars(DeletePod(FALSE))
    /\ WF_vars(CreatePod(FALSE))
    /\ WF_vars(Return)
    /\ WF_vars(PodWatchEvent)
    /\ WF_vars(PodComesUp)

\* Rolling upgrade of three nodes: each labelled and running a pod of the
\* other image
UpgradeNodes == {"n1", "n2", "n3"}

InitUpgrade ==
    /\ apiNodes = [n \in UpgradeNodes |-> n]
    /\ apiPods = [p \in {PodNameFor(n) : n \in UpgradeNodes} |->
                    OldDotmesh(CHOOSE n \in UpgradeNodes : PodNameFor(n) = p)]
    /\ Synced

UpgradeSpec == InitUpgrade /\ [][NextRolling]_vars /\ UpgradeFairness

\* A node has left the cluster: n1 and n2 remain, labelled, and a pod of the
\* configured image is still bound to n3; n1 and n2 have a pod or none
GoneNode == NodeNameList[3]

RemainingNodes == {NodeNameList[1], NodeNameList[2]}

RunningDotmesh(node) ==
    [bound |-> node, ncont |-> 1, image |-> DOTMESH_IMAGE,
     nodeName |-> node, phase |-> PodRunning]

InitGone ==
    /\ apiNodes = [n \in RemainingNodes |-> n]
    /\ \E phase \in {PodPending, PodRunning, PodFailed, PodSucceeded} :
       \E others \in Maps({PodNameFor(n) : n \in RemainingNodes},
                           UNION {{NewDotmesh(n), RunningDotmesh(n), OldDotmesh(n)} : n \in RemainingNodes}) :
         /\ \A n \in RemainingNodes :
               PodNameFor(n) \in DOMAIN others => others[PodNameFor(n)].bound = n
         /\ apiPods = Put(others, PodNameFor(GoneNode),
                          [RunningDotmesh(GoneNode) EXCEPT !.phase = phase])
    /\ Synced

GoneSpec == InitGone /\ [][NextPass]_vars

\* The pod shapes and those of a pod whose phase is Unknown
ClassifyShapes ==
    PodShapes \cup {[pod EXCEPT !.phase = PodUnknown] :
                       pod \in {q \in PodShapes : q.phase = PodSucceeded}}

\* One pod of any shape, with any defects together, on any node list
InitClassify ==
    /\ apiNodes \in Maps(NodeNames, LabelStates)
    /\ apiPods \in {m \in Maps(InitPodNames, ClassifyShapes) : Cardinality(DOMAIN m) = 1}
    /\ Synced

ClassifySpec == InitClassify /\ [][NextPass]_vars

\* The operator starting on any cluster of the bounded sizes whose nodes
\* carry a label map
\* Pods for node n1 with one container: of either image, not yet scheduled,
\* or on n1 and Running or Failed
FairPodShapes ==
    {pod \in PodShapes : /\ pod.bound = NodeNameList[1]
                         /\ pod.ncont = 1
                         /\ pod.nodeName \in {"", NodeNameList[1]}
                         /\ pod.phase # PodSucceeded
                         /\ pod.nodeName # "" => pod.phase # PodPending}

FairPodMaps == Maps(InitPodNames, FairPodShapes)

InitFair ==
    /\ apiNodes \in {m \in [NodeNames -> LabelStates] :
                       /\ m[NodeNameList[1]] = NodeNameList[1]
                       /\ \A n \in NodeNames : m[n] \in {NoLabel, n}}
    /\ apiPods \in FairPodMaps
    /\ Starting

\* The operator, its informers and the pods it creates coming up; no call
\* fails and nobody else changes the cluster.
NextFair ==
    \/ NodeInformerList
    \/ PodInformerList
    \/ StartWorker
    \/ RunWorker
    \/ LabelNode(FALSE)
    \/ ExaminePods
    \/ DeletePod(FALSE)
    \/ CreatePod(FALSE)
    \/ Return
    \/ NodeWatchEvent
    \/ PodWatchEvent
    \/ Resync
    \/ PodComesUp

\* Run's goroutines keep running: the informers list and deliver their
\* events, wait.Until calls runWorker every second, process() runs to its
\* return; pending pods are scheduled and started.
Fairness ==
    /\ WF_vars(NodeInformerList)
    /\ WF_vars(PodInformerList)
    /\ WF_vars(StartWorker)
    /\ WF_vars(RunWorker)
    /\ WF_vars(LabelNode(FALSE))
    /\ WF_vars(ExaminePods)
    /\ WF_vars(DeletePod(FALSE))
    /\ WF_vars(CreatePod(FALSE))
    /\ WF_vars(Return)
    /\ WF_vars(NodeWatchEvent)
    /\ WF_vars(PodWatchEvent)
    /\ WF_vars(PodComesUp)

FairSpec == InitFair /\ [][NextFair]_vars /\ Fairness

\* The worker with calls that may fail, on a cluster of at most one pod whose
\* nodes carry a label map; the informers deliver what changes, a resync
\* may come or not
InitRetry ==
    /\ apiNodes \in {m \in Maps(NodeNames, LabelStates) :
                       \A n \in DOMAIN m : m[n] \in {NoLabel, n}}
    /\ apiPods \in Maps({PodNameFor(NodeNameList[1])}, FairPodShapes)
    /\ Synced

NextRetry ==
    \/ RunWorker
    \/ \E fail \in BOOLEAN : LabelNode(fail)
    \/ ExaminePods
    \/ \E fail \in BOOLEAN : DeletePod(fail)
    \/ \E fail \in BOOLEAN : CreatePod(fail)
    \/ Return
    \/ NodeWatchEvent
    \/ PodWatchEvent
    \/ Resync

\* wait.Until keeps calling runWorker and process() runs to its return; the
\* informers deliver the changes of the cluster.  Nothing makes a resync or
\* another event come.
RetryFairness ==
    /\ WF_vars(RunWorker)
    /\ WF_vars(\E fail \in BOOLEAN : LabelNode(fail))
    /\ WF_vars(ExaminePods)
    /\ WF_vars(\E fail \in BOOLEAN : DeletePod(fail))
    /\ WF_vars(\E fail \in BOOLEAN : CreatePod(fail))
    /\ WF_vars(Return)
    /\ WF_vars(NodeWatchEvent)
    /\ WF_vars(PodWatchEvent)

RetrySpec == InitRetry /\ [][NextRetry]_vars /\ RetryFairness

\* The keys and values a ConfigMap may hold: the keys of the defaults table
\* and one the operator does not know, set to "" or to a value of the user
TableKeys == {DefaultsTable[i][1] : i \in 1..Len(DefaultsTable)}
ConfigKeys == TableKeys \cup {"extraKey"}
ConfigValues == {"", "custom"}

\* What the Get can return: an error, a ConfigMap without data (its Data
\* decodes to a nil map) or a ConfigMap with entries
ConfigMapResults ==
    {[state |-> "error", data |-> EmptyMap], [state |-> "nil", data |-> EmptyMap]}
    \cup {[state |-> "ok", data |-> m] :
             m \in {d \in Maps(ConfigKeys, ConfigValues) :
                      /\ DOMAIN d # {}
                      /\ Cardinality(DOMAIN d) <= MaxConfigKeys}}

\* main() has built the client and calls newDotmeshController
Constructing ==
    /\ pc = "constructing"
    /\ config = EmptyMap
    /\ restarts = 0
    /\ synced = {}
    /\ nodeCache = EmptyMap
    /\ podCache = EmptyMap
    /\ updatesNeeded = FALSE
    /\ external = 0
    /\ NoLocals

\* The process from main() on, for every result of the Get, on two nodes of
\* which the first is labelled and may carry a Failed pod
InitProcess ==
    /\ configMap \in ConfigMapResults
    /\ apiNodes \in {m \in [NodeNames -> LabelStates] :
                       /\ m[NodeNameList[1]] = NodeNameList[1]
                       /\ \A n \in NodeNames : m[n] \in {NoLabel, n}}
    /\ apiPods \in {EmptyMap,
                     [p \in {PodNameFor(NodeNameList[1])} |->
                        [RunningDotmesh(NodeNameList[1]) EXCEPT !.phase = PodFailed]]}
    /\ Constructing

NextProcess ==
    \/ Construct
    \/ NodeInformerList
    \/ PodInformerList
    \/ StartWorker
    \/ RunWorker
    \/ \E fail \in BOOLEAN : LabelNode(fail)
    \/ ExaminePods
    \/ \E fail \in BOOLEAN : DeletePod(fail)
    \/ \E fail \in BOOLEAN : CreatePod(fail)
    \/ Return
    \/ NodeWatchEvent
    \/ PodWatchEvent
    \/ Interrupt

ProcessSpec == InitProcess /\ [][NextProcess]_vars

\* The process started on a cluster whose first node is labelled and may
\* carry the pod of its name in any of FairPodShapes; no ConfigMap is found
InitRestart ==
    /\ configMap = [state |-> "error", data |-> EmptyMap]
    /\ apiNodes \in {m \in [NodeNames -> LabelStates] :
                       /\ m[NodeNameList[1]] = NodeNameList[1]
                       /\ \A n \in NodeNames : m[n] \in {NoLabel, n}}
    /\ apiPods \in Maps({PodNameFor(NodeNameList[1])}, FairPodShapes)
    /\ Constructing

\* The operator as in NextFair, stopped and started again at any point
NextRestart ==
    \/ Construct
    \/ NodeInformerList
    \/ PodInformerList
    \/ StartWorker
    \/ RunWorker
    \/ LabelNode(FALSE)
    \/ ExaminePods
    \/ DeletePod(FALSE)
    \/ CreatePod(FALSE)
    \/ Return
    \/ NodeWatchEvent
    \/ PodWatchEvent
    \/ PodComesUp
    \/ Restart

\* A started process runs as under Fairness; nothing makes a restart come.
RestartFairness ==
    /\ WF_vars(Construct)
    /\ WF_vars(NodeInformerList)
    /\ WF_vars(PodInformerList)
    /\ WF_vars(StartWorker)
    /\ WF_vars(RunWorker)
    /\ WF_vars(LabelNode(FALSE))
    /\ WF_vars(ExaminePods)
    /\ WF_vars(DeletePod(FALSE))
    /\ WF_vars(CreatePod(FALSE))
    /\ WF_vars(Return)
    /\ WF_vars(NodeWatchEvent)
    /\ WF_vars(PodWatchEvent)
    /\ WF_vars(PodComesUp)

RestartSpec == InitRestart /\ [][NextRestart]_vars /\ RestartFairness

\* Run's goroutines keep running, but an informer's list may fail every
\* time it is tried (the reflector retries for ever): nothing makes a cache
\* sync.  stopCh is never closed, so WaitForCacheSync does not return false.
StartupFairness ==
    /\ WF_vars(StartWorker)
    /\ WF_vars(RunWorker)
    /\ WF_vars(LabelNode(FALSE))
    /\ WF_vars(ExaminePods)
    /\ WF_vars(DeletePod(FALSE))
    /\ WF_vars(CreatePod(FALSE))
    /\ WF_vars(Return)
    /\ WF_vars(NodeWatchEvent)
    /\ WF_vars(PodWatchEvent)
    /\ WF_vars(PodComesUp)

StartupSpec == InitFair /\ [][NextFair]_vars /\ StartupFairness

(***************************************************************************)
(* What a pass has done so far, read off its calls.                        *)
(***************************************************************************)
CallsOf(op) == {i \in 1..Len(calls) : calls[i].op = op}
Updated == {calls[i].name : i \in CallsOf("update")}
Deleted == {calls[i].name : i \in CallsOf("delete")}
Created == {calls[i].name : i \in CallsOf("create")}
NoApiErrors == \A i \in 1..Len(calls) : calls[i].ok
PodsListed == pc \in {"kill", "create", "done"}
\* delete calls for pods listed as Running
RunningDeletes ==
    Cardinality({i \in CallsOf("delete") : dotmeshes[calls[i].name].phase = PodRunning})
RunningListed ==
    Cardinality({p \in DOMAIN dotmeshes : dotmeshes[p].phase = PodRunning})
Max(a, b) == IF a >= b THEN a ELSE b

(***************************************************************************)
(* C1: in any single pass the number of delete calls issued for pods whose *)
(* listed phase is Running is at most                                      *)
(* max(0, runningPods - floor(0.75 * |validNodes|)), whatever the lists    *)
(* and whatever the order in which the marked pods are visited.            *)
(***************************************************************************)
C1_RunningDeletesBounded ==
    PodsListed =>
        RunningDeletes <= Max(0, RunningListed - ((3 * Cardinality(validNodes)) \div 4))

\* a pass that deleted a Running pod and then spared another one
C1_Witness ==
    /\ pc = "done"
    /\ RunningDeletes >= 1
    /\ \E p \in dotmeshesToKill \ Deleted : dotmeshes[p].phase = PodRunning

(***************************************************************************)
(* C5: after a pass that completes without API errors every listed node    *)
(* carries the identity label with its own name as value: a node whose     *)
(* label was absent or different got exactly one update, with its name as  *)
(* the value, and a node already labelled with its name got none.          *)
(***************************************************************************)
UpdatesOf(n) == {i \in CallsOf("update") : calls[i].name = n}

C5_NodesLabelled ==
    (pc = "done" /\ NoApiErrors) =>
        \A n \in DOMAIN nodes :
            /\ n \in DOMAIN apiNodes /\ apiNodes[n] = n
            /\ \A i \in UpdatesOf(n) : calls[i].arg = n
            /\ Cardinality(UpdatesOf(n)) = IF nodes[n] = n THEN 0 ELSE 1

\* a completed pass that found one node labelled and labelled another
C5_Witness ==
    /\ pc = "done"
    /\ NoApiErrors
    /\ \E n \in DOMAIN nodes : nodes[n] = n
    /\ \E n \in DOMAIN nodes : nodes[n] # n /\ apiNodes[n] = n /\ UpdatesOf(n) # {}

(***************************************************************************)
(* C7: in every pass validNodes is the set of identity-label values of the *)
(* listed nodes and each value is the name of a listed node, also for the  *)
(* nodes the pass itself had to label; so validNodes has as many members   *)
(* as there are listed nodes and every pod created is bound to the name of *)
(* a listed node.                                                          *)
(***************************************************************************)
C7_ValidNodesAreNodeNames ==
    PodsListed =>
        /\ validNodes = DOMAIN nodes
        /\ Cardinality(validNodes) = Cardinality(DOMAIN nodes)
        /\ \A i \in CallsOf("create") : calls[i].arg \in DOMAIN nodes

(***************************************************************************)
(* C8 as stated: after a pass that completes without API errors every      *)
(* listed pod the pass did not delete has exactly one container, the       *)
(* configured image, a bound node in validNodes, is scheduled (if at all)  *)
(* on its bound node and is not in phase Failed.                           *)
(***************************************************************************)
PassesTheChecks(pod) ==
    /\ pod.bound # NoSelector
    /\ pod.ncont = 1
    /\ pod.image = DOTMESH_IMAGE
    /\ pod.bound \in validNodes
    /\ pod.nodeName \in {"", pod.bound}
    /\ pod.phase # PodFailed

Survivors == DOMAIN dotmeshes \ Deleted

C8_SurvivorsHealthy_Original ==
    (pc = "done" /\ NoApiErrors) =>
        \A p \in Survivors : PassesTheChecks(dotmeshes[p])

(***************************************************************************)
(* C8 as amended: after a pass that completes without API errors every     *)
(* listed pod the pass did not delete either passes all the checks or is a *)
(* Running pod the rate limit spared: the Running pods listed, less those  *)
(* deleted, had come down to floor(0.75 * |validNodes|) or were below it.  *)
(***************************************************************************)
C8_SurvivorsHealthyOrSpared ==
    (pc = "done" /\ NoApiErrors) =>
        \A p \in Survivors :
            \/ PassesTheChecks(dotmeshes[p])
            \/ /\ dotmeshes[p].phase = PodRunning
               /\ RunningListed - RunningDeletes <= (3 * Cardinality(validNodes)) \div 4

\* a completed pass that deleted a pod, spared a Running one and left a
\* pod that passes the checks alone
C8_Witness ==
    /\ pc = "done"
    /\ NoApiErrors
    /\ Deleted # {}
    /\ \E p \in Survivors : ~PassesTheChecks(dotmeshes[p])

(***************************************************************************)
(* C3 as stated: a pass that runs right after a completed pass, with no    *)
(* watch event between the two (under ResyncSpec the caches never change,  *)
(* so both passes list the same nodes and pods), issues no node update, no *)
(* pod delete and no pod create, whatever the caches hold.                 *)
(***************************************************************************)
C3_SecondPassSilent_Original ==
    (pc = "done" /\ again) => calls = <<>>

(***************************************************************************)
(* C3 as amended: a pass over lists that show a converged cluster (every   *)
(* listed node labelled with its own name, every listed pod passing all    *)
(* the checks, every listed node with such a pod bound to it) issues no    *)
(* cluster-mutating call, the first time and on every repetition.          *)
(***************************************************************************)
ConvergedLists ==
    /\ \A n \in DOMAIN nodes : nodes[n] = n
    /\ \A p \in DOMAIN dotmeshes : PassesTheChecks(dotmeshes[p])
    /\ \A n \in DOMAIN nodes : \E p \in DOMAIN dotmeshes : dotmeshes[p].bound = n

C3_ConvergedPassSilent ==
    (pc = "done" /\ ConvergedLists) => calls = <<>>

\* the second of two passes over the same converged, non-empty lists
C3_Witness ==
    /\ pc = "done"
    /\ again
    /\ ConvergedLists
    /\ DOMAIN nodes # {}
    /\ calls = <<>>

(***************************************************************************)
(* C6: cold start with the nodes n1, n2, n3 unlabelled and no pods: every  *)
(* node update labels a node with its own name, and the pods created are   *)
(* dotmesh-n1, dotmesh-n2 and dotmesh-n3 only: no pod of another name or   *)
(* bound to another identity is ever created.                              *)
(***************************************************************************)
C6_ColdStartCreatesOnlyNodePods ==
    /\ \A i \in CallsOf("update") : calls[i].name \in ColdNodes /\ calls[i].arg = calls[i].name
    /\ \A i \in CallsOf("create") :
          calls[i].arg \in ColdNodes /\ calls[i].name = PodNameFor(calls[i].arg)

(***************************************************************************)
(* C2: in a rolling upgrade (every node with a Running pod of the wrong    *)
(* image, no failures from outside) the number of pods Running in the      *)
(* cluster never falls below floor(0.75 * N), whatever the lag of the pod  *)
(* cache behind the deletions and however many passes are triggered in     *)
(* between.                                                                *)
(***************************************************************************)
RunningInCluster ==
    Cardinality({p \in DOMAIN apiPods : apiPods[p].phase = PodRunning})

C2_RunningNeverBelowMinimum ==
    RunningInCluster >= (RatioNum * Cardinality(RollingNodes)) \div RatioDen

(***************************************************************************)
(* C10: the first pass of the rolling upgrade of four labelled nodes, each *)
(* with a Running pod of the wrong image, suspends all four nodes, creates *)
(* no pod, and by its end has deleted exactly one pod and spared the other *)
(* three.                                                                  *)
(***************************************************************************)
FirstPass == ~again /\ pc \in {"label", "kill", "create", "done"}

C10_FirstPassDeletesOne ==
    /\ (FirstPass /\ PodsListed) =>
          /\ suspendedNodes = RollingNodes
          /\ Created = {}
          /\ Cardinality(CallsOf("delete")) <= 1
    /\ (FirstPass /\ pc = "done") =>
          /\ Cardinality(CallsOf("delete")) = 1
          /\ Cardinality(Deleted) = 1
          /\ Cardinality(dotmeshesToKill \ Deleted) = 3
          /\ \A p \in dotmeshesToKill \ Deleted : p \in DOMAIN apiPods
          /\ Len(calls) = 1

C10_Witness ==
    /\ FirstPass
    /\ pc = "done"
    /\ Cardinality(DOMAIN dotmeshes) = 4
    /\ \A p \in DOMAIN dotmeshes : WrongImage(dotmeshes[p]) /\ IsRunning(dotmeshes[p])
    /\ Cardinality(Deleted) = 1

(***************************************************************************)
(* C4: every watch event leaves the flag set, the flag is cleared only by  *)
(* the worker's tick that starts a pass, and a set flag is eventually      *)
(* cleared: after every event, also one delivered while a pass is in       *)
(* progress, a pass starts strictly later.                                 *)
(***************************************************************************)
PassInProgress == pc \in {"label", "kill", "create"}

EventDelivered == nodeCache' # nodeCache \/ podCache' # podCache

PassStarts == WorkerWaiting /\ pc' = "label" /\ calls' = <<>>

C4_EventThenPass ==
    /\ [][EventDelivered => updatesNeeded']_vars
    /\ [][(updatesNeeded /\ ~updatesNeeded') => PassStarts]_vars
    /\ updatesNeeded ~> ~updatesNeeded

C4_Witness ==
    /\ PassInProgress
    /\ calls # <<>>
    /\ updatesNeeded

(***************************************************************************)
(* C9: with no outside changes and no failing call the cluster reaches and *)
(* keeps a state where every valid node that no pod suspends has exactly   *)
(* one healthy pod bound to it.                                            *)
(***************************************************************************)
HealthyFor(n) ==
    {p \in DOMAIN apiPods :
        apiPods[p].bound = n /\ Verdict(apiPods[p], ValidNodesOf(apiNodes)) = "healthy"}

Settled ==
    \A n \in ValidNodesOf(apiNodes) \ SuspendedBy(apiPods, ValidNodesOf(apiNodes)) :
        Cardinality(HealthyFor(n)) = 1

C9_EventuallyOnePodPerNode == <>[]Settled

(***************************************************************************)
(* C11 as stated: a pass of the rolling upgrade that lists the four        *)
(* labelled nodes and the three remaining Running pods of the wrong image  *)
(* creates exactly one pod, for the freed node, and deletes one more of    *)
(* the three.                                                              *)
(***************************************************************************)
FreedNodes == RollingNodes \ {dotmeshes[p].bound : p \in DOMAIN dotmeshes}

SecondPassLists ==
    /\ pc = "done"
    /\ nodes = [n \in RollingNodes |-> n]
    /\ Cardinality(DOMAIN dotmeshes) = 3
    /\ \A p \in DOMAIN dotmeshes :
          \E n \in RollingNodes : p = PodNameFor(n) /\ dotmeshes[p] = OldDotmesh(n)

OneCreateOnFreedNode ==
    /\ Cardinality(CallsOf("create")) = 1
    /\ \A i \in CallsOf("create") :
          calls[i].arg \in FreedNodes /\ calls[i].name = PodNameFor(calls[i].arg)

C11_SecondPassDeletesOneMore_Original ==
    SecondPassLists =>
        /\ OneCreateOnFreedNode
        /\ Cardinality(CallsOf("delete")) = 1
        /\ Deleted \subseteq DOMAIN dotmeshes

(***************************************************************************)
(* C11 amended: such a pass creates exactly one pod, for the freed node,   *)
(* and deletes none: three Running pods are not more than the minimum of   *)
(* three, so the three are spared until a pass lists four Running pods.    *)
(***************************************************************************)
C11_SecondPassCreatesOnly ==
    SecondPassLists =>
        /\ OneCreateOnFreedNode
        /\ CallsOf("delete") = {}
        /\ Len(calls) = 1

C11_Witness ==
    /\ SecondPassLists
    /\ Cardinality(FreedNodes) = 1
    /\ Created # {}

(***************************************************************************)
(* C12: a pod bound to a node that is no longer listed is marked to kill   *)
(* without suspending its node and is deleted in that same pass, also when *)
(* it is Running and the running population is at or below the minimum.    *)
(***************************************************************************)
BoundToGoneNode(pod) ==
    ~MissingSelector(pod) /\ Verdict(pod, validNodes) = "kill"

C12_GoneNodePodDeleted ==
    pc = "done" =>
        \A p \in DOMAIN dotmeshes :
            BoundToGoneNode(dotmeshes[p]) =>
                /\ p \in dotmeshesToKill
                /\ dotmeshes[p].bound \notin suspendedNodes
                /\ p \in Deleted

(***************************************************************************)
(* C13: the loop over the pod list marks a pod to kill iff one of the six  *)
(* reasons holds (no selector, container count, image, scheduled off its   *)
(* bound node, bound node not valid, phase Failed), suspends its bound     *)
(* node iff the first reason that holds, in that order, is the second,     *)
(* third, fourth or sixth, and removes the bound node from undottedNodes   *)
(* iff no reason holds.                                                    *)
(***************************************************************************)
Reasons(pod) ==
    <<pod.bound = NoSelector,
      pod.ncont # 1,
      pod.image # DOTMESH_IMAGE,
      pod.nodeName # "" /\ pod.nodeName # pod.bound,
      pod.bound \notin validNodes,
      pod.phase = PodFailed>>

FirstReason(pod) ==
    IF \E i \in 1..6 : Reasons(pod)[i]
      THEN CHOOSE i \in 1..6 : Reasons(pod)[i] /\ \A j \in 1..(i - 1) : ~Reasons(pod)[j]
      ELSE 0

C13_FirstMatchClassification ==
    PodsListed =>
        /\ dotmeshesToKill = {p \in DOMAIN dotmeshes : FirstReason(dotmeshes[p]) # 0}
        /\ suspendedNodes =
              {dotmeshes[p].bound :
                 p \in {q \in DOMAIN dotmeshes : FirstReason(dotmeshes[q]) \in {2, 3, 4, 6}}}
        /\ undottedNodes =
              validNodes \ {dotmeshes[p].bound :
                              p \in {q \in DOMAIN dotmeshes : FirstReason(dotmeshes[q]) = 0}}

C13_Witness ==
    /\ PodsListed
    /\ \E p \in DOMAIN dotmeshes :
          /\ Reasons(dotmeshes[p])[3]
          /\ Reasons(dotmeshes[p])[5]
          /\ FirstReason(dotmeshes[p]) = 3
          /\ dotmeshes[p].bound \in suspendedNodes

(***************************************************************************)
(* C14: a pass issues no create call for an identity in its suspended set: *)
(* when a listed pod with a selector has the wrong container count, the    *)
(* wrong image, is scheduled off its bound node or has Failed, the pass    *)
(* issues no create call for its bound node, whether it deleted that pod   *)
(* or spared it.                                                           *)
(***************************************************************************)
Doomed(pod) ==
    /\ ~MissingSelector(pod)
    /\ WrongContainerCount(pod) \/ WrongImage(pod) \/ MisScheduled(pod) \/ HasFailed(pod)

C14_NoCreateOnSuspendedNode ==
    \A i \in CallsOf("create") :
        /\ calls[i].arg \notin suspendedNodes
        /\ \A p \in DOMAIN dotmeshes :
              Doomed(dotmeshes[p]) =>
                  /\ calls[i].arg # dotmeshes[p].bound
                  /\ calls[i].name # PodNameFor(dotmeshes[p].bound)

C14_Witness ==
    /\ pc = "done"
    /\ Created # {}
    /\ \E p \in DOMAIN dotmeshes :
          /\ Doomed(dotmeshes[p])
          /\ dotmeshes[p].bound \in undottedNodes
          /\ p \in Deleted
    /\ \E p \in DOMAIN dotmeshes :
          /\ Doomed(dotmeshes[p])
          /\ dotmeshes[p].bound \in undottedNodes
          /\ p \notin Deleted

(***************************************************************************)
(* C15: every pod marked to kill and not listed as Running gets its delete *)
(* call in that pass, whatever the population and the minimum, and the     *)
(* running-population counter goes down only with the deletes of pods      *)
(* listed as Running.                                                      *)
(***************************************************************************)
NotRunningMarked == {p \in dotmeshesToKill : ~IsRunning(dotmeshes[p])}

C15_NotRunningAlwaysDeleted ==
    /\ PodsListed => clusterPopulation = RunningListed - RunningDeletes
    /\ pc \in {"create", "done"} =>
          \A p \in NotRunningMarked :
              /\ Cardinality({i \in CallsOf("delete") : calls[i].name = p}) = 1
              /\ (\A i \in CallsOf("delete") : calls[i].name = p => calls[i].ok)
                    => (p \notin DOMAIN apiPods \/ p \in Created)

C15_Witness ==
    /\ pc = "done"
    /\ clusterPopulation <= ClusterMinimumPopulation(validNodes)
    /\ clusterPopulation = RunningListed
    /\ RunningListed > 0
    /\ \E p \in NotRunningMarked : p \in Deleted /\ p \notin DOMAIN apiPods

(***************************************************************************)
(* C16: a failed node update ends the pass there: process() returns the    *)
(* error, the failed update is the pass's last call, and the pass issues   *)
(* no pod delete and no pod create.                                        *)
(***************************************************************************)
FailedUpdates == {i \in CallsOf("update") : ~calls[i].ok}

C16_UpdateFailureAborts ==
    /\ FailedUpdates # {} =>
          /\ pc = "failed"
          /\ FailedUpdates = {Len(calls)}
          /\ CallsOf("delete") = {}
          /\ CallsOf("create") = {}
    /\ pc = "failed" => FailedUpdates # {}

C16_Witness ==
    /\ pc = "failed"
    /\ Len(calls) >= 2
    /\ MarkedToKill(podCache, ValidNodesOf(nodes)) # {}
    /\ iter # {}

(***************************************************************************)
(* C17 as stated: after a pass that failed (aborted by a failed node       *)
(* update, or with a failed delete or create call) a new pass starts, also *)
(* when no watch event and no resync arrives.                              *)
(***************************************************************************)
PassFailed == pc = "failed" \/ (pc = "done" /\ ~NoApiErrors)

ProcessReturns == pc \in {"label", "kill", "create"} /\ pc' \in {"done", "failed"}

CallbackStep == pc' = pc /\ calls' = calls /\ iter' = iter

C18_FlagSetOnlyByCallbacks ==
    /\ [][ProcessReturns => updatesNeeded' = updatesNeeded]_vars
    /\ [][(~updatesNeeded /\ updatesNeeded') => CallbackStep]_vars
    /\ [][(WorkerWaiting /\ pc' = "label") => updatesNeeded]_vars

C18_Witness ==
    /\ pc = "done"
    /\ ~NoApiErrors
    /\ ~updatesNeeded
    /\ again

(***************************************************************************)
(* C19: a failed delete or create call does not end the pass: process()    *)
(* goes on to its return nil, every pod marked to kill has got its delete  *)
(* call or was spared by the rate limit, and every undotted node that is   *)
(* not suspended has got its create call.                                  *)
(***************************************************************************)
FailedPodCalls == {i \in CallsOf("delete") \cup CallsOf("create") : ~calls[i].ok}

C19_PodCallFailureSwallowed ==
    FailedPodCalls # {} =>
        /\ pc \in {"kill", "create", "done"}
        /\ pc = "done" =>
              /\ \A p \in dotmeshesToKill \ Deleted :
                    IsRunning(dotmeshes[p])
                      /\ clusterPopulation <= ClusterMinimumPopulation(validNodes)
              /\ \A node \in undottedNodes \ suspendedNodes :
                    Cardinality({i \in CallsOf("create") : calls[i].arg = node}) = 1

C19_Witness ==
    /\ pc = "done"
    /\ \E i, j, k, l \in 1..Len(calls) :
          /\ i < j /\ j < k /\ k < l
          /\ calls[i].op = "delete" /\ ~calls[i].ok
          /\ calls[j].op = "delete"
          /\ calls[k].op = "create" /\ ~calls[k].ok
          /\ calls[l].op = "create"

(***************************************************************************)
(* C20: until both the node cache and the pod cache have synced the worker *)
(* has not ticked: no pass has started, the flag has not been cleared and  *)
(* no call has been issued; every tick and every step of a pass happens    *)
(* with both caches synced.                                                *)
(***************************************************************************)
BothSynced == synced = {"node", "pod"}

WorkerStep == pc' # pc \/ calls' # calls \/ iter' # iter \/ (updatesNeeded /\ ~updatesNeeded')

C20_NoPassBeforeSync ==
    /\ [](~BothSynced => (pc = "starting" /\ calls = <<>> /\ nodes = EmptyMap))
    /\ [][WorkerStep => BothSynced]_vars

C20_Witness ==
    /\ pc = "label"
    /\ BothSynced
    /\ DOMAIN nodes # {}
    /\ ~again

(***************************************************************************)
(* C22: within a pass every node update comes before every pod delete and  *)
(* every pod delete before every pod create.                               *)
(***************************************************************************)
StepOf(op) == IF op = "update" THEN 1 ELSE IF op = "delete" THEN 2 ELSE 3

C22_StepOrderStrict ==
    \A i, j \in 1..Len(calls) : i < j => StepOf(calls[i].op) <= StepOf(calls[j].op)

C22_Witness ==
    /\ pc = "done"
    /\ Cardinality(CallsOf("update")) >= 1
    /\ Cardinality(CallsOf("delete")) >= 2
    /\ Cardinality(CallsOf("create")) >= 1

(***************************************************************************)
(* C23: the pass reads the node list and the pod list together at its top: *)
(* as long as the pod list has not been read the pass has issued no        *)
(* mutating call.                                                          *)
(***************************************************************************)
C23_ListsReadBeforeCalls ==
    pc = "label" => calls = <<>>

(***************************************************************************)
(* C24: while the worker waits with the flag false no pass starts and no   *)
(* call is issued, and the tick that starts a pass has read the flag as    *)
(* true and left it false.                                                 *)
(***************************************************************************)
C24_NoPassWhenFlagFalse ==
    /\ [][(WorkerWaiting /\ ~updatesNeeded) =>
             (pc' = pc /\ calls' = calls /\ locals' = locals)]_vars
    /\ [][(WorkerWaiting /\ pc' = "label") => (updatesNeeded /\ ~updatesNeeded')]_vars

C24_Witness ==
    /\ pc = "done"
    /\ ~updatesNeeded
    /\ MarkedToKill(podCache, ValidNodesOf(nodeCache)) # {}

(***************************************************************************)
(* C29: when two listed pods bound to the same node both pass every check, *)
(* the node is not in undottedNodes, neither pod is marked to kill or gets *)
(* a delete call, and no create call is issued for the node.               *)
(***************************************************************************)
HealthyListedFor(n) ==
    {p \in DOMAIN dotmeshes :
        dotmeshes[p].bound = n /\ Verdict(dotmeshes[p], validNodes) = "healthy"}

C29_DuplicatesSurvive ==
    PodsListed =>
        \A n \in validNodes :
            Cardinality(HealthyListedFor(n)) >= 2 =>
                /\ n \notin undottedNodes
                /\ HealthyListedFor(n) \cap dotmeshesToKill = {}
                /\ HealthyListedFor(n) \cap Deleted = {}
                /\ \A p \in HealthyListedFor(n) : p \in DOMAIN apiPods
                /\ \A i \in CallsOf("create") :
                      calls[i].arg # n /\ calls[i].name # PodNameFor(n)

C29_Witness ==
    /\ pc = "done"
    /\ \E n \in validNodes :
          /\ Cardinality(HealthyListedFor(n)) = 2
          /\ \A p \in HealthyListedFor(n) : dotmeshes[p].image = DOTMESH_IMAGE
    /\ Created # {}

(***************************************************************************)
(* C30: the minimum population is floor(0.75 * |validNodes|): 0 for one    *)
(* valid node and less than |validNodes| for every size from 1 up.  So     *)
(* with one valid node every marked pod is deleted, the sole Running pod   *)
(* included, and when at least as many pods are listed Running as there    *)
(* are valid nodes and a Running pod is marked to kill, the pass deletes   *)
(* at least one Running pod.                                               *)
(***************************************************************************)
FirstNodes(k) == {NodeNameList[i] : i \in 1..k}

KillLoopDone == pc \in {"create", "done"}

C30_MinimumBelowNodeCount ==
    /\ ClusterMinimumPopulation(FirstNodes(1)) = 0
    /\ \A k \in 1..Len(NodeNameList) :
          /\ ClusterMinimumPopulation(FirstNodes(k)) < k
          /\ RatioDen * ClusterMinimumPopulation(FirstNodes(k)) <= RatioNum * k
          /\ RatioNum * k < RatioDen * (ClusterMinimumPopulation(FirstNodes(k)) + 1)
    /\ (KillLoopDone /\ Cardinality(validNodes) = 1) => dotmeshesToKill \subseteq Deleted
    /\ ( /\ KillLoopDone
         /\ Cardinality(validNodes) >= 1
         /\ RunningListed >= Cardinality(validNodes)
         /\ \E p \in dotmeshesToKill : IsRunning(dotmeshes[p]) ) => RunningDeletes >= 1

C30_Witness ==
    /\ pc = "done"
    /\ Cardinality(validNodes) = 1
    /\ RunningListed = 1
    /\ Cardinality(DOMAIN dotmeshes) = 1
    /\ RunningDeletes = 1

(***************************************************************************)
(* C25: after the Config Resolver is constructed, for every key of the     *)
(* defaults table the configuration map contains that key; its value is    *)
(* the ConfigMap's value verbatim if the key was present (also when it is  *)
(* the empty string) and the table's default otherwise; keys outside the   *)
(* table are left unchanged.  Stated of every construction: whatever the   *)
(* Get returned, newDotmeshController ends with the map resolved.          *)
(***************************************************************************)
ResolvedFrom(fetched, data) ==
    /\ DOMAIN data = DOMAIN fetched \cup TableKeys
    /\ \A i \in 1..Len(DefaultsTable) :
         data[DefaultsTable[i][1]] = IF DefaultsTable[i][1] \in DOMAIN fetched
                                       THEN fetched[DefaultsTable[i][1]]
                                       ELSE DefaultsTable[i][2]
    /\ \A key \in DOMAIN fetched : data[key] = fetched[key]

\* a step that ends newDotmeshController
ConstructionEnds == pc = "constructing" /\ pc' \notin {"constructing", "killed"}

C25_ConstructionResolvesDefaults ==
    [][ConstructionEnds => (pc' = "starting" /\ ResolvedFrom(configMap.data, config'))]_vars

\* the same for a ConfigMap that has entries and for a failed Get
ResolvedUnlessNoData ==
    [][(ConstructionEnds /\ configMap.state # "nil")
         => (pc' = "starting" /\ ResolvedFrom(configMap.data, config'))]_vars

(***************************************************************************)
(* C26: if fetching the ConfigMap fails, the operator still starts and     *)
(* behaves as with an empty ConfigMap: every pod it creates uses every     *)
(* default of the table (POOL_SIZE=10G, USE_POOL_DIR=/var/lib/dotmesh,     *)
(* USE_POOL_NAME=pool, ...).                                               *)
(***************************************************************************)
DefaultEnv ==
    [USE_POOL_NAME |-> "pool",
     USE_POOL_DIR |-> "/var/lib/dotmesh",
     POOL_SIZE |-> "10G",
     LOG_ADDR |-> "",
     DOTMESH_UPGRADES_URL |-> "https://checkpoint.dotmesh.com/",
     DOTMESH_UPGRADES_INTERVAL_SECONDS |-> "14400",
     FLEXVOLUME_DRIVER_DIR |-> "/usr/libexec/kubernetes/kubelet-plugins/volume/exec"]

\* the step issues a create call
CreateStep == Len(calls') > Len(calls) /\ calls'[Len(calls')].op = "create"

C26_DefaultsAfterFailedFetch ==
    [][configMap.state = "error"
         => /\ ConstructionEnds => (pc' = "starting" /\ config' # EmptyMap)
            /\ CreateStep => calls'[Len(calls')].env = DefaultEnv]_vars

C26_Witness ==
    /\ configMap.state = "error"
    /\ \E i \in CallsOf("create") :
         /\ calls[i].ok
         /\ calls[i].env.POOL_SIZE = "10G"
         /\ calls[i].env.USE_POOL_DIR = "/var/lib/dotmesh"
         /\ calls[i].env.USE_POOL_NAME = "pool"

(***************************************************************************)
(* C28: on interrupt the termination channel is closed, the ticker loop    *)
(* starts no new pass, the cache pumps stop and Run returns; a pass in     *)
(* flight is allowed to complete.  Stated of the step in which the         *)
(* interrupted process ends: no pass is in flight then.                    *)
(***************************************************************************)
C28_InterruptLetsPassComplete ==
    [][(pc' = "killed" /\ pc # "killed") => ~PassInProgress]_vars

(***************************************************************************)
(* C27: the operator is stateless: stopping the process at any point       *)
(* (between or in the middle of passes) and restarting it with fresh       *)
(* caches and a false dirty flag leads to the same steady state of nodes   *)
(* and pods as an uninterrupted run from the same cluster state.  From     *)
(* every cluster of InitRestart the uninterrupted run settles in           *)
(* SteadyCluster; so does every run with a restart.                        *)
(***************************************************************************)
\* every node labelled with its name and running the one pod of its name
SteadyCluster ==
    /\ apiNodes = [n \in NodeNames |-> n]
    /\ apiPods = [p \in {PodNameFor(n) : n \in NodeNames} |->
                    RunningDotmesh(CHOOSE n \in NodeNames : PodNameFor(n) = p)]

C27_RestartSameSteadyState == <>[]SteadyCluster

\* a process that was stopped and started again has settled the cluster and
\* sleeps
C27_Witness ==
    /\ restarts = 1
    /\ SteadyCluster
    /\ pc = "done"
    /\ ~updatesNeeded
    /\ nodeCache = apiNodes
    /\ podCache = apiPods

(***************************************************************************)
(* C21: if either cache fails to complete its initial sync, the process    *)
(* exits with a fatal error (non-zero exit status) and never starts the    *)
(* reconciler.  In every behaviour both caches sync or the process exits   *)
(* with a fatal error.                                                     *)
(***************************************************************************)
C21_SyncFailureIsFatal == <>(synced = {"node", "pod"} \/ pc = "fatal")

(***************************************************************************)
(* C31: the pod built for node identity n has name dotmesh-<n> in the      *)
(* operator's namespace, carries the server role label, has a node         *)
(* selector binding it to identity-label = n, has exactly one container    *)
(* whose image is the configured image, and has restart policy Never.      *)
(***************************************************************************)
C31_DesiredPodShape ==
    \A i \in CallsOf("create") :
        /\ calls[i].pod.name = "dotmesh-" \o calls[i].arg
        /\ calls[i].name = calls[i].pod.name
        /\ calls[i].pod.namespace = DOTMESH_NAMESPACE
        /\ calls[i].pod.role = "dotmesh-server"
        /\ calls[i].pod.nodeSelector = calls[i].arg
        /\ Len(calls[i].pod.containers) = 1
        /\ calls[i].pod.containers[1] = DOTMESH_IMAGE
        /\ calls[i].pod.restartPolicy = "Never"
        /\ calls[i].ok => /\ calls[i].name \in DOMAIN apiPods
                          /\ apiPods[calls[i].name].bound = calls[i].arg
                          /\ apiPods[calls[i].name].ncont = 1
                          /\ apiPods[calls[i].name].image = DOTMESH_IMAGE

\* a pass has created the pods of two nodes
C31_Witness ==
    /\ pc = "done"
    /\ \E i, j \in CallsOf("create") :
         /\ calls[i].ok /\ calls[j].ok
         /\ calls[i].arg = NodeNameList[1]
         /\ calls[j].arg = NodeNameList[2]
         /\ calls[i].name = "dotmesh-n1"
         /\ calls[j].name = "dotmesh-n2"

(***************************************************************************)
(* C32: the operator's own deletes and creates feeding back through the    *)
(* watch do not cause an endless loop of mutations: with no external       *)
(* changes and no API errors, after finitely many passes every further     *)
(* pass triggered by echo or resync events issues no cluster-mutating      *)
(* call.                                                                   *)
(***************************************************************************)
C32_MutationsEnd == <>[](calls = <<>>)

\* a pass that followed the echo of the operator's own create of dotmesh-n2
\* has run to its end without a call
C32_Witness ==
    /\ pc = "done"
    /\ again
    /\ calls = <<>>
    /\ PodNameFor(NodeNameList[2]) \in DOMAIN apiPods
    /\ podCache = apiPods
    /\ nodeCache = apiNodes

(***************************************************************************)
(* C33: a pass never deletes a healthy pod: every pod delete call issued   *)
(* in a pass targets a pod that step B of the same pass marked to kill,    *)
(* and a pod that passes all six checks is never the target of a delete    *)
(* call in that pass.                                                      *)
(***************************************************************************)
C33_OnlyMarkedPodsDeleted ==
    \A i \in CallsOf("delete") :
        /\ PodsListed
        /\ calls[i].name \in DOMAIN dotmeshes
        /\ calls[i].name \in dotmeshesToKill
        /\ FirstReason(dotmeshes[calls[i].name]) # 0
        /\ ~PassesTheChecks(dotmeshes[calls[i].name])

\* a completed pass that deleted a pod and left alone a listed pod that
\* passes the checks
C33_Witness ==
    /\ pc = "done"
    /\ Deleted # {}
    /\ \E p \in DOMAIN dotmeshes :
          /\ PassesTheChecks(dotmeshes[p])
          /\ p \notin Deleted
          /\ p \in DOMAIN apiPods

(***************************************************************************)
(* C34: the set of pods a pass tries to create is exactly {dotmesh-<n> :   *)
(* n in validNodes, no healthy pod in the pass's pod list is bound to n,   *)
(* n not suspended}: at most one create per node identity per pass, and    *)
(* never a create for a node that has a healthy pod bound to it in the     *)
(* snapshot.                                                               *)
(***************************************************************************)
\* the nodes the pass owes a pod
NodesToDot ==
    {n \in validNodes : HealthyListedFor(n) = {} /\ n \notin suspendedNodes}

C34_CreatesExactlyForUndotted ==
    /\ \A i \in CallsOf("create") :
          /\ calls[i].arg \in NodesToDot
          /\ calls[i].name = PodNameFor(calls[i].arg)
          /\ \A j \in CallsOf("create") : calls[j].arg = calls[i].arg => j = i
    /\ pc = "done" => {calls[i].arg : i \in CallsOf("create")} = NodesToDot

\* a completed pass that created a pod and passed over a node with a healthy
\* pod and a suspended node
C34_Witness ==
    /\ pc = "done"
    /\ Created # {}
    /\ \E n \in validNodes : HealthyListedFor(n) # {}
    /\ suspendedNodes \cap validNodes # {}

(***************************************************************************)
(* C35: rolling upgrade makes progress: when every deleted pod leaves the  *)
(* cache and every created pod becomes Running, eventually every pod of    *)
(* the wrong image has been deleted and replaced; and while the Running    *)
(* pods listed are at or below the minimum (the created pods stay          *)
(* Pending), a pass spares every Running pod of the wrong image.           *)
(***************************************************************************)
\* every node runs the pod of its name, of the configured image
UpgradeDone ==
    apiPods = [p \in {PodNameFor(n) : n \in UpgradeNodes} |->
                 RunningDotmesh(CHOOSE n \in UpgradeNodes : PodNameFor(n) = p)]

C35_RollingUpgradeProgress ==
    /\ <>[]UpgradeDone
    /\ [](RunningListed <= ClusterMinimumPopulation(validNodes)
            => \A i \in CallsOf("delete") : ~IsRunning(dotmeshes[calls[i].name]))

\* a pass that lists a created pod still Pending and two Running pods of
\* the wrong image has spared both
C35_Witness ==
    /\ pc = "done"
    /\ calls = <<>>
    /\ RunningListed = ClusterMinimumPopulation(validNodes)
    /\ \E p \in DOMAIN dotmeshes :
          dotmeshes[p].image = DOTMESH_IMAGE /\ dotmeshes[p].phase = PodPending
    /\ Cardinality({p \in DOMAIN dotmeshes :
                       WrongImage(dotmeshes[p]) /\ IsRunning(dotmeshes[p])}) = 2
    /\ \A p \in DOMAIN dotmeshes : WrongImage(dotmeshes[p]) => p \in DOMAIN apiPods

(***************************************************************************)
(* C36: a delete call for a Running pod that returns an error still        *)
(* decrements the pass's population counter, so a failed deletion consumes *)
(* the pass's deletion budget and the number of Running pods actually      *)
(* deleted in the pass can be smaller than the number the rate limit       *)
(* would have allowed.                                                     *)
(***************************************************************************)
\* the delete calls for pods listed Running, and those of them that failed
RunningDeleteCalls == {i \in CallsOf("delete") : IsRunning(dotmeshes[calls[i].name])}
FailedRunningDeletes == {i \in RunningDeleteCalls : ~calls[i].ok}

\* what the rate limit allows a pass to delete
DeletionBudget == Max(0, RunningListed - ClusterMinimumPopulation(validNodes))

C36_FailedDeleteConsumesBudget ==
    PodsListed =>
        /\ clusterPopulation = RunningListed - Cardinality(RunningDeleteCalls)
        /\ Cardinality(RunningDeleteCalls \ FailedRunningDeletes)
              <= DeletionBudget - Cardinality(FailedRunningDeletes)
        /\ pc \in {"create", "done"} =>
              \A p \in dotmeshesToKill :
                  (IsRunning(dotmeshes[p]) /\ p \notin Deleted)
                     => Cardinality(RunningDeleteCalls) = DeletionBudget

\* the one delete the rate limit allowed has failed and the other Running
\* pod marked to kill was spared: no Running pod was deleted
C36_Witness ==
    /\ pc = "done"
    /\ DeletionBudget = 1
    /\ Cardinality(FailedRunningDeletes) = 1
    /\ RunningDeleteCalls = FailedRunningDeletes
    /\ \E p \in dotmeshesToKill : IsRunning(dotmeshes[p]) /\ p \notin Deleted
    /\ \A p \in DOMAIN dotmeshes : IsRunning(dotmeshes[p]) => p \in DOMAIN apiPods

(***************************************************************************)
(* What a pass issues as a function of its lists alone, whatever the order *)
(* in which the loops visit nodes and pods.                                *)
(***************************************************************************)
UpdatesDue == {n \in DOMAIN nodes : NeedsLabel(n, nodes[n])}
RunningMarked == {p \in dotmeshesToKill : IsRunning(dotmeshes[p])}
Min(a, b) == IF a <= b THEN a ELSE b

SameCallsInEveryOrder ==
    /\ Updated = UpdatesDue
    /\ {calls[i].arg : i \in CallsOf("create")} = NodesToDot
    /\ Created = {PodNameFor(n) : n \in NodesToDot}
    /\ {p \in Deleted : ~IsRunning(dotmeshes[p])} = NotRunningMarked
    /\ Cardinality(RunningDeleteCalls) = Min(Cardinality(RunningMarked), DeletionBudget)
    /\ Len(calls) = Cardinality(Updated) + Cardinality(Deleted) + Cardinality(Created)

SoundButForPhase(pod) ==
    /\ pod.bound # NoSelector
    /\ pod.ncont = 1
    /\ pod.image = DOTMESH_IMAGE
    /\ ~(pod.nodeName # "" /\ pod.nodeName # pod.bound)
    /\ pod.bound \in validNodes

C38_OnlyFailedPhaseKills ==
    PodsListed =>
        \A p \in DOMAIN dotmeshes :
            SoundButForPhase(dotmeshes[p]) =>
                IF dotmeshes[p].phase = PodFailed
                  THEN p \in dotmeshesToKill
                  ELSE /\ p \notin dotmeshesToKill
                       /\ dotmeshes[p].bound \notin undottedNodes
                       /\ p \notin Deleted
                       /\ p \in DOMAIN apiPods /\ apiPods[p] = dotmeshes[p]
                       /\ \A i \in CallsOf("create") :
                             calls[i].arg # dotmeshes[p].bound

\* a completed pass has left a Succeeded pod in place and created a pod for
\* another node
C38_Witness ==
    /\ pc = "done"
    /\ Created # {}
    /\ \E p \in DOMAIN dotmeshes :
          /\ SoundButForPhase(dotmeshes[p])
          /\ dotmeshes[p].phase = PodSucceeded
          /\ p \in DOMAIN apiPods

(***************************************************************************)
(* C39: a pod created by the operator for node n, once observed in the pod *)
(* cache in any phase other than Failed and either unscheduled or          *)
(* scheduled on n while n is still observed and labelled, is classified    *)
(* healthy by every later pass: it is not marked to kill and no second pod *)
(* is created for n.                                                       *)
(***************************************************************************)
\* the listed pod p is the pod process() builds for n, in whatever state the
\* scheduler and the kubelet have brought it
CreatedFor(p, n) ==
    /\ p = PodNameFor(n)
    /\ [dotmeshes[p] EXCEPT !.nodeName = "", !.phase = PodPending] = NewDotmesh(n)

C39_OwnPodStaysHealthy ==
    PodsListed =>
        \A p \in DOMAIN dotmeshes : \A n \in validNodes :
            (/\ CreatedFor(p, n)
             /\ dotmeshes[p].phase # PodFailed
             /\ dotmeshes[p].nodeName \in {"", n})
               => /\ p \notin dotmeshesToKill
                  /\ p \notin Deleted
                  /\ n \notin undottedNodes
                  /\ \A i \in CallsOf("create") : calls[i].arg # n

\* a pass has listed the pod of n1, created by an earlier pass, once before
\* it was scheduled
C39_Witness ==
    /\ pc = "done"
    /\ \E n \in validNodes \cap NodeNames :
          /\ PodNameFor(n) \in DOMAIN dotmeshes
          /\ CreatedFor(PodNameFor(n), n)
          /\ dotmeshes[PodNameFor(n)].nodeName = ""
          /\ PodNameFor(n) \in DOMAIN apiPods
          /\ apiPods[PodNameFor(n)].phase = PodRunning

(***************************************************************************)
(* C40: labelling works for a node that has no labels at all (absent label *)
(* map): the pass issues an update of a copy of the node carrying the      *)
(* identity label set to the node's name, leaves the cached node object    *)
(* unmodified, and the pass continues to the pod steps without crashing.   *)
(***************************************************************************)
C40_NilLabelMapLabelled ==
    \A n \in DOMAIN nodes :
        nodes[n] = NilLabels =>
            /\ pc # "crashed"
            /\ PodsListed => /\ \E i \in UpdatesOf(n) : calls[i].arg = n
                             /\ nodeCache[n] = NilLabels

====
